---- MODULE Spec2Model ----
(***************************************************************************)
(* The job directory store of the job finder application: the JobProvider  *)
(* React context (JobContext.tsx).  The state is the six useState cells of *)
(* the provider; the operations are fetchJobs, loadMoreJobs, searchJobs,   *)
(* addJob, removeJob and the mount effect.                                 *)
(*                                                                         *)
(* React semantics the model keeps:                                        *)
(*  - fetchJobs is memoised with useCallback(..., []), so it is the        *)
(*    closure of the first render for the whole life of the provider: the  *)
(*    `loading` and `loadingMore` it reads are the first render's values.  *)
(*  - loadMoreJobs and searchJobs are re-created at each render, so a call *)
(*    made by the user interface reads the state of the latest render; a   *)
(*    render follows each task (event handler or promise continuation), so *)
(*    at the start of a task the closures hold the current state.          *)
(*  - loadMoreJobs is async: what follows `await fetchJobs(...)` runs in   *)
(*    a microtask right after the fetch settles, with the closure of the   *)
(*    render in which loadMoreJobs was called, so its searchJobs('') reads *)
(*    the `jobs` of that render.                                           *)
(*  - setX(prev => ...) is applied to the state at the time of the update. *)
(*                                                                         *)
(* Strings are sequences of one-character strings; an identifier made by   *)
(* uuid.v4() is a fresh number.  The values of the fields of a response    *)
(* and of the page are JavaScript values: loadMoreJobs is called with a    *)
(* page, or by FlatList with the info object of onEndReached.              *)
(***************************************************************************)
EXTENDS Integers, Sequences, FiniteSets, TLC

\* ------------------------------------------------------------------ bounds
\* Requests issued in one behaviour, the mount-time request included.
MaxReq == 3
\* Postings kept in savedJobs (the code has no cap).
MaxSaved == 3
\* Records that the server sends in one behaviour, those of a response on
\* which the map throws included.
MaxRecords == 4

\* ----------------------------------------------------------- JS values
\* A JavaScript value; t is its kind.  A finite number is a double, kept as
\* the decimal that Number::toString writes for it (the shortest one that
\* reads back as that double): neg its sign, int the digits before the
\* point (no leading zero), frac the digits after it (no trailing zero);
\* zero has neither and -0 is not told from 0.  s holds the characters of a
\* string, a the elements of an array, keys the names of the own properties
\* of an object.  A character is one that a string of this module can hold
\* (U+0000 to U+00FF).
Value(t) ==
  [t |-> t, neg |-> FALSE, int |-> <<>>, frac |-> <<>>, s |-> <<>>, a |-> <<>>,
   keys |-> {}]
Undefined == Value("undefined")
Null == Value("null")
True == Value("true")
False == Value("false")
NaN == Value("NaN")
Infinity(neg) == [Value("Infinity") EXCEPT !.neg = neg]
Str(chars) == [Value("string") EXCEPT !.s = chars]
Arr(elements) == [Value("array") EXCEPT !.a = elements]
Object(keys) == [Value("object") EXCEPT !.keys = keys]
Obj == Object({})

\* What an operation gives when it throws a TypeError instead of giving a
\* value.
TypeError == Value("TypeError")

Digits == <<"0", "1", "2", "3", "4", "5", "6", "7", "8", "9">>
IsDigit(c) == \E d \in 1..10 : Digits[d] = c
DigitVal(c) == (CHOOSE d \in 1..10 : Digits[d] = c) - 1
AllDigits(chars) == \A i \in 1..Len(chars) : IsDigit(chars[i])
Zeros(k) == [i \in 1..k |-> "0"]
\* The function f on 1..n as the sequence of its values.
Tuple(f) == f \o <<>>
DigitValues(chars) == Tuple([i \in 1..Len(chars) |-> DigitVal(chars[i])])
DigitChars(d) == Tuple([i \in 1..Len(d) |-> Digits[d[i] + 1]])

\* The digits without the zeros in front, without the zeros behind.
StripLeading(d) ==
  IF \A i \in 1..Len(d) : d[i] = "0" THEN <<>>
  ELSE SubSeq(d, CHOOSE i \in 1..Len(d) : d[i] # "0" /\ \A j \in 1..(i - 1) : d[j] = "0",
              Len(d))
StripTrailing(d) ==
  IF \A i \in 1..Len(d) : d[i] = "0" THEN <<>>
  ELSE SubSeq(d, 1, CHOOSE i \in 1..Len(d) :
                      d[i] # "0" /\ \A j \in (i + 1)..Len(d) : d[j] = "0")

\* The digits of a natural number.
RECURSIVE NatDigits(_)
NatDigits(k) ==
  IF k = 0 THEN <<>> ELSE Append(NatDigits(k \div 10), Digits[(k % 10) + 1])

\* d is below e: digit sequences compared from the left, the shorter one
\* continued with zeros.
DigitsBelow(d, e) ==
  LET at(x, i) == IF i <= Len(x) THEN DigitVal(x[i]) ELSE 0
      n == IF Len(d) > Len(e) THEN Len(d) ELSE Len(e)
  IN \E i \in 1..n : at(d, i) < at(e, i) /\ \A j \in 1..(i - 1) : at(d, j) = at(e, j)

\* ------------------------------------------------ exact decimal arithmetic
\* An exact unsigned decimal: 0.d[1]d[2]...d[n] times 10^p, the digits as
\* numbers, the first and the last not 0; zero has no digit.
Unsigned(d, p) ==
  IF \A i \in 1..Len(d) : d[i] = 0 THEN [d |-> <<>>, p |-> 0]
  ELSE LET first == CHOOSE i \in 1..Len(d) : d[i] # 0 /\ \A j \in 1..(i - 1) : d[j] = 0
           last == CHOOSE i \in 1..Len(d) : d[i] # 0 /\ \A j \in (i + 1)..Len(d) : d[j] = 0
       IN [d |-> SubSeq(d, first, last), p |-> p - (first - 1)]

\* The natural number with the digits d.
Integer(d) == Unsigned(d, Len(d))

\* The digits of v before the point, those after it.
IntDigits(v) == Tuple([i \in 1..v.p |-> IF i <= Len(v.d) THEN v.d[i] ELSE 0])
FracDigits(v) ==
  IF v.p >= Len(v.d) THEN <<>>
  ELSE IF v.p >= 0 THEN SubSeq(v.d, v.p + 1, Len(v.d))
  ELSE Tuple([i \in 1..(Len(v.d) - v.p) |-> IF i <= -v.p THEN 0 ELSE v.d[i + v.p]])

\* v < w
Below(v, w) ==
  LET n == IF Len(v.d) > Len(w.d) THEN Len(v.d) ELSE Len(w.d)
      at(x, i) == IF i <= Len(x.d) THEN x.d[i] ELSE 0
  IN IF Len(w.d) = 0 THEN FALSE
     ELSE IF Len(v.d) = 0 THEN TRUE
     ELSE \/ v.p < w.p
          \/ /\ v.p = w.p
             /\ \E i \in 1..n : at(v, i) < at(w, i) /\ \A j \in 1..(i - 1) : at(v, j) = at(w, j)

\* 2 * v and v / 2 of v > 0.  The carry into a digit of 2 * v comes from the
\* digit to its right alone (it is 1 when that digit is 5 or more), and the
\* borrow into a digit of v / 2 from the digit to its left alone (it is 10
\* when that digit is odd).
Twice(v) ==
  LET n == Len(v.d)
      at(i) == IF i >= 1 /\ i <= n THEN v.d[i] ELSE 0
      digit(i) == ((2 * at(i)) % 10) + (IF at(i + 1) >= 5 THEN 1 ELSE 0)
      first == IF at(1) >= 5 THEN 0 ELSE 1
      last == IF at(n) = 5 THEN n - 1 ELSE n
  IN [d |-> Tuple([i \in 1..(last - first + 1) |-> digit(i + first - 1)]),
      p |-> v.p + 1 - first]
Half(v) ==
  LET n == Len(v.d)
      at(i) == IF i >= 1 /\ i <= n THEN v.d[i] ELSE 0
      digit(i) == (at(i) + 10 * (at(i - 1) % 2)) \div 2
      first == IF at(1) = 1 THEN 2 ELSE 1
      last == IF at(n) % 2 = 1 THEN n + 1 ELSE n
  IN [d |-> Tuple([i \in 1..(last - first + 1) |-> digit(i + first - 1)]),
      p |-> v.p + 1 - first]

\* v * 2^k
RECURSIVE TwiceTimes(_, _)
TwiceTimes(v, k) ==
  IF k = 0 THEN v
  ELSE IF k = 1 THEN Twice(v)
  ELSE LET h == TwiceTimes(v, k \div 2)
       IN IF Len(h.d) = 0 THEN h ELSE TwiceTimes(h, k - k \div 2)
RECURSIVE HalfTimes(_, _)
HalfTimes(v, k) ==
  IF k = 0 THEN v
  ELSE IF k = 1 THEN Half(v)
  ELSE LET h == HalfTimes(v, k \div 2)
       IN IF Len(h.d) = 0 THEN h ELSE HalfTimes(h, k - k \div 2)
Scale(v, k) ==
  IF Len(v.d) = 0 THEN v ELSE IF k >= 0 THEN TwiceTimes(v, k) ELSE HalfTimes(v, -k)

\* The digits of the natural number d plus one, of d > 0 minus one (the
\* same number of digits, or one more for 99...9 + 1).
Increment(d) ==
  IF \A i \in 1..Len(d) : d[i] = 9 THEN <<1>> \o Tuple([i \in 1..Len(d) |-> 0])
  ELSE LET j == CHOOSE i \in 1..Len(d) : d[i] # 9 /\ \A k \in (i + 1)..Len(d) : d[k] = 9
       IN Tuple([i \in 1..Len(d) |-> IF i < j THEN d[i] ELSE IF i = j THEN d[i] + 1 ELSE 0])
Decrement(d) ==
  LET j == CHOOSE i \in 1..Len(d) : d[i] # 0 /\ \A k \in (i + 1)..Len(d) : d[k] = 0
  IN Tuple([i \in 1..Len(d) |-> IF i < j THEN d[i] ELSE IF i = j THEN d[i] - 1 ELSE 9])

\* The digits of 2 * d + bit, d > 0 and bit being 0 or 1.
TwicePlus(d, bit) ==
  LET n == Len(d)
      at(i) == IF i >= 1 /\ i <= n THEN d[i] ELSE 0
      digit(i) == ((2 * at(i)) % 10) + (IF i = n THEN bit ELSE IF at(i + 1) >= 5 THEN 1 ELSE 0)
      first == IF at(1) >= 5 THEN 0 ELSE 1
  IN Tuple([i \in 1..(n - first + 1) |-> digit(i + first - 1)])

\* ----------------------------------------------------------------- doubles
\* A positive double is m * 2^e with 2^52 <= m < 2^53 and -1074 <= e <= 971,
\* or, for a subnormal, 0 < m < 2^52 and e = -1074.  m is kept as its digits.
TwoTo52 == <<4, 5, 0, 3, 5, 9, 9, 6, 2, 7, 3, 7, 0, 4, 9, 6>>
TwoTo53 == <<9, 0, 0, 7, 1, 9, 9, 2, 5, 4, 7, 4, 0, 9, 9, 2>>

\* The integer nearest to w, the even one of two.
Nearest(w) ==
  LET n == Len(w.d)
      at(i) == IF i >= 1 /\ i <= n THEN w.d[i] ELSE 0
      up == \/ at(w.p + 1) > 5
            \/ at(w.p + 1) = 5 /\ n > w.p + 1
            \/ at(w.p + 1) = 5 /\ at(w.p) % 2 = 1
  IN IF up THEN Increment(IntDigits(w)) ELSE IntDigits(w)

\* w * 2^k and s + k for the k that brings w into 2^52 <= w < 2^53, or as
\* near to it from below as s <= 1074 allows.
RECURSIVE Normal(_, _)
Normal(w, s) ==
  IF ~Below(w, [d |-> TwoTo53, p |-> 16]) THEN Normal(Half(w), s - 1)
  ELSE IF Below(w, [d |-> TwoTo52, p |-> 16]) /\ s < 1074 THEN Normal(Twice(w), s + 1)
  ELSE [w |-> w, s |-> s]

\* The double with the integer m, 2^52 <= m <= 2^53, and the exponent -s.
Rounded(m, s) ==
  IF m = TwoTo53 THEN [m |-> TwoTo52, e |-> 1 - s] ELSE [m |-> m, e |-> -s]

\* The first guess of the exponent of a decimal with p digits before the
\* point: the number of bits that these take (3322 / 1000 is just above the
\* binary logarithm of 10), 1074 at most.
Guess(p) ==
  LET guess == 52 - ((p - 1) * 3322) \div 1000
  IN IF guess > 1074 THEN 1074 ELSE guess

\* The double nearest to n.w * 2^(-n.s), n.w brought into range.
NearestTo(n) == Rounded(Nearest(n.w), n.s)

\* The double nearest to v > 0 with s the first guess of its exponent.
BinaryFrom(v, s) == NearestTo(Normal(Scale(v, s), s))

\* The double nearest to v > 0, the one with the even m of two; an e above
\* 971 stands for a value beyond the largest double, an m without digits
\* for zero.
Binary(v) == BinaryFrom(v, Guess(v.p))

\* The exact value of the double b.
Exact(b) == Scale(Integer(b.m), b.e)

\* Half way from the double b to the doubles next to it; the one below is
\* half as far away when b is a power of two.
Narrow(b) == b.m = TwoTo52 /\ b.e > -1074
Lo(b) ==
  Scale(Integer(IF Narrow(b) THEN TwicePlus(TwicePlus(Decrement(b.m), 1), 1)
                ELSE TwicePlus(Decrement(b.m), 1)),
        IF Narrow(b) THEN b.e - 2 ELSE b.e - 1)
Hi(b) == Scale(Integer(TwicePlus(b.m, 1)), b.e - 1)

\* c reads back as the double between lo and hi; the ends do when closed.
Inside(c, lo, hi, closed) ==
  IF closed THEN ~Below(c, lo) /\ ~Below(hi, c) ELSE Below(lo, c) /\ Below(c, hi)

\* x cut to its first k digits, and that plus one in the last of them.
Down(x, k) == Unsigned(SubSeq(x.d, 1, k), x.p)
Up(x, k) == Unsigned(Increment(<<0>> \o SubSeq(x.d, 1, k)), x.p + 1)

\* x is nearer to Up(x, k) than to Down(x, k), or as near with Down odd.
NearerUp(x, k) ==
  LET n == Len(x.d)
      at(i) == IF i <= n THEN x.d[i] ELSE 0
  IN \/ at(k + 1) > 5
     \/ at(k + 1) = 5 /\ n > k + 1
     \/ at(k + 1) = 5 /\ x.d[k] % 2 = 1

\* A decimal of k digits reads back as the double x.
Fits(x, k, lo, hi, closed) ==
  \/ k >= Len(x.d)
  \/ Inside(Down(x, k), lo, hi, closed)
  \/ Inside(Up(x, k), lo, hi, closed)

\* The fewest digits of a decimal that reads back as x.
Fewest(x, lo, hi, closed) ==
  CHOOSE k \in 1..17 :
    Fits(x, k, lo, hi, closed) /\ \A j \in 1..(k - 1) : ~Fits(x, j, lo, hi, closed)

\* Of down and up, the one that reads back as x, the nearer one of two.
NearestOf(x, k, down, up, lo, hi, closed) ==
  IF Inside(down, lo, hi, closed)
  THEN (IF NearerUp(x, k) /\ Inside(up, lo, hi, closed) THEN up ELSE down)
  ELSE up

\* The decimal of k digits that reads back as x and is nearest to it.
WithDigits(x, k, lo, hi, closed) ==
  IF k >= Len(x.d) THEN x ELSE NearestOf(x, k, Down(x, k), Up(x, k), lo, hi, closed)

\* The shortest decimal between lo and hi that is nearest to x.
ShortestOf(x, lo, hi, closed) == WithDigits(x, Fewest(x, lo, hi, closed), lo, hi, closed)

\* The decimal that Number::toString writes for the double b: of the
\* decimals with the fewest digits that lie nearer to b than to any other
\* double (or as near, when m is even), the one nearest to b, the even one of
\* two.
Shortest(b) == ShortestOf(Exact(b), Lo(b), Hi(b), b.m[Len(b.m)] % 2 = 0)

\* The number with the given sign and value.
Plain(neg, v) ==
  [Value("number") EXCEPT !.neg = neg, !.int = DigitChars(IntDigits(v)),
                          !.frac = DigitChars(FracDigits(v))]

\* The double b with the given sign as a value.
Double(neg, b) ==
  IF Len(b.m) = 0 THEN Value("number")
  ELSE IF b.e > 971 THEN Infinity(neg)
  ELSE Plain(neg, Shortest(b))

\* No decimal of more than 800 digits lies half way between two doubles, so
\* that the digits behind the 800th count as one.
Cut(v) == IF Len(v.d) > 800 THEN [d |-> SubSeq(v.d, 1, 800) \o <<1>>, p |-> v.p] ELSE v

\* The number nearest to the decimal v with the given sign.  A decimal of at
\* most 15 digits between 1e-300 and 1e300 is the shortest one of its
\* double.
DecimalOf(neg, v) ==
  IF Len(v.d) = 0 THEN Value("number")
  ELSE IF Len(v.d) <= 15 /\ v.p >= -299 /\ v.p <= 300 THEN Plain(neg, v)
  ELSE IF v.p > 310 THEN Infinity(neg)
  ELSE IF v.p < -330 THEN Value("number")
  ELSE Double(neg, Binary(Cut(v)))

\* The number nearest to the decimal with the given sign and digits.
Decimal(neg, int, frac) == DecimalOf(neg, Unsigned(DigitValues(int \o frac), Len(int)))

\* The number k, an integer that is its own double.
Num(k) ==
  [Value("number") EXCEPT !.neg = k < 0, !.int = NatDigits(IF k < 0 THEN -k ELSE k)]

\* WhiteSpace and LineTerminator: tab, line feed, vertical tab, form feed,
\* carriage return, space, no-break space.
WhiteSpace == {"\t", "\n", "", "\f", "\r", " ", " "}

Trim(chars) ==
  IF \A i \in 1..Len(chars) : chars[i] \in WhiteSpace THEN <<>>
  ELSE SubSeq(chars,
              CHOOSE i \in 1..Len(chars) :
                chars[i] \notin WhiteSpace /\ \A j \in 1..(i - 1) : chars[j] \in WhiteSpace,
              CHOOSE i \in 1..Len(chars) :
                chars[i] \notin WhiteSpace /\ \A j \in (i + 1)..Len(chars) : chars[j] \in WhiteSpace)

\* The first position of chars that holds a character of set, 0 when none.
IndexOf(chars, set) ==
  IF \E i \in 1..Len(chars) : chars[i] \in set
  THEN CHOOSE i \in 1..Len(chars) : chars[i] \in set /\ \A j \in 1..(i - 1) : chars[j] \notin set
  ELSE 0

\* The digits of the bases 16, 8 and 2.
HexDigits ==
  <<"0", "1", "2", "3", "4", "5", "6", "7", "8", "9", "a", "b", "c", "d", "e", "f">>
HexUpper == <<"0", "1", "2", "3", "4", "5", "6", "7", "8", "9", "A", "B", "C", "D", "E", "F">>
IsBaseDigit(c, base) == \E d \in 1..base : HexDigits[d] = c \/ HexUpper[d] = c
BaseDigitVal(c) == (CHOOSE d \in 1..16 : HexDigits[d] = c \/ HexUpper[d] = c) - 1

\* The bits of the digits of a base 2^width, the first bit first.
BitsOf(chars, width) ==
  Tuple([i \in 1..(width * Len(chars)) |->
           (BaseDigitVal(chars[((i - 1) \div width) + 1])
              \div 2^(width - 1 - ((i - 1) % width))) % 2])

\* The digits of a + b, a and b the digits of natural numbers.  A digit
\* takes a carry when to its right a sum of two digits is 10 or more and the
\* sums in between are all 9.
Sum(a, b) ==
  LET n == IF Len(a) > Len(b) THEN Len(a) ELSE Len(b)
      at(x, i) == IF i > n - Len(x) THEN x[i - (n - Len(x))] ELSE 0
      s(i) == at(a, i) + at(b, i)
      carry(i) == \E j \in (i + 1)..n : s(j) >= 10 /\ \A k \in (i + 1)..(j - 1) : s(k) = 9
      digit(i) == (s(i) + (IF carry(i) THEN 1 ELSE 0)) % 10
      first == IF carry(0) THEN 0 ELSE 1
  IN Tuple([i \in 1..(n - first + 1) |-> digit(i + first - 1)])

\* The decimal digits of the number written as bits: the first bits times
\* 2^h plus the last h bits.
RECURSIVE FromBits(_)
FromBits(bits) ==
  IF Len(bits) = 0 THEN <<>>
  ELSE IF Len(bits) = 1 THEN (IF bits[1] = 1 THEN <<1>> ELSE <<>>)
  ELSE LET h == Len(bits) \div 2
           front == FromBits(SubSeq(bits, 1, Len(bits) - h))
           back == FromBits(SubSeq(bits, Len(bits) - h + 1, Len(bits)))
       IN Sum(IntDigits(Scale(Integer(front), h)), back)

\* The bits from the first 1 on.
Significant(all) ==
  IF \A i \in 1..Len(all) : all[i] = 0 THEN <<>>
  ELSE SubSeq(all, CHOOSE i \in 1..Len(all) : all[i] = 1 /\ \A j \in 1..(i - 1) : all[j] = 0,
              Len(all))

\* m, the number of the first 53 of more bits, or one more: when the rest
\* is above a half of the last of them, or is a half and that one is odd.
Leading(m, bits) ==
  IF /\ bits[54] = 1
     /\ (m[Len(m)] % 2 = 1 \/ \E i \in 55..Len(bits) : bits[i] = 1)
  THEN Increment(m)
  ELSE m

\* The number nearest to the one written as bits, the first of them 1.
FromSignificant(bits) ==
  IF Len(bits) <= 53 THEN Decimal(FALSE, DigitChars(FromBits(bits)), <<>>)
  ELSE IF Len(bits) > 1024 THEN Infinity(FALSE)
  ELSE Double(FALSE, Rounded(Leading(FromBits(SubSeq(bits, 1, 53)), bits), 53 - Len(bits)))

\* The number nearest to the one written as chars in the base 2^width.
FromBase(chars, width) == FromSignificant(Significant(BitsOf(chars, width)))

\* The number written as digits, cap when it is cap or more.
RECURSIVE SmallNat(_, _)
SmallNat(digits, cap) ==
  IF Len(digits) = 0 THEN 0
  ELSE LET k == 10 * SmallNat(SubSeq(digits, 1, Len(digits) - 1), cap)
                  + DigitVal(digits[Len(digits)])
       IN IF k > cap THEN cap ELSE k

\* The exponent written as digits, cap when it is cap or more.
ExponentOf(digits, cap) ==
  IF Len(StripLeading(digits)) > 9 THEN cap ELSE SmallNat(StripLeading(digits), cap)

\* The number nearest to the decimal with the digits sig, the first of them
\* not 0 and intLen of them before the point.
Significand(neg, sig, intLen) ==
  IF sig = <<>> THEN Value("number")
  ELSE IF intLen > 309 THEN Infinity(neg)
  ELSE IF intLen < -324 THEN Value("number")
  ELSE Decimal(neg,
               IF intLen <= 0 THEN <<>>
               ELSE IF intLen >= Len(sig) THEN sig \o Zeros(intLen - Len(sig))
               ELSE SubSeq(sig, 1, intLen),
               IF intLen <= 0 THEN Zeros(-intLen) \o sig
               ELSE IF intLen >= Len(sig) THEN <<>>
               ELSE SubSeq(sig, intLen + 1, Len(sig)))

\* StrUnsignedDecimalLiteral: digits with at most one point and at least one
\* digit, then an optional exponent part; or Infinity.
UnsignedDecimalLiteral(neg, body) ==
  LET ePos == IndexOf(body, {"e", "E"})
      mant == IF ePos = 0 THEN body ELSE SubSeq(body, 1, ePos - 1)
      expo == IF ePos = 0 THEN <<>> ELSE SubSeq(body, ePos + 1, Len(body))
      expSigned == expo # <<>> /\ expo[1] \in {"+", "-"}
      expDigits == IF expSigned THEN Tail(expo) ELSE expo
      expOk == ePos = 0 \/ (expDigits # <<>> /\ AllDigits(expDigits))
      dot == IndexOf(mant, {"."})
      intPart == IF dot = 0 THEN mant ELSE SubSeq(mant, 1, dot - 1)
      fracPart == IF dot = 0 THEN <<>> ELSE SubSeq(mant, dot + 1, Len(mant))
      mantOk == AllDigits(intPart) /\ AllDigits(fracPart) /\ Len(intPart) + Len(fracPart) >= 1
      \* an exponent beyond the digits of the mantissa by 400 gives Infinity
      \* or 0 whatever it is
      exp == IF expSigned /\ expo[1] = "-" THEN -ExponentOf(expDigits, Len(mant) + 400)
             ELSE ExponentOf(expDigits, Len(mant) + 400)
  IN IF body = <<"I", "n", "f", "i", "n", "i", "t", "y">> THEN Infinity(neg)
     ELSE IF ~(mantOk /\ expOk) THEN NaN
     ELSE Significand(neg, StripLeading(intPart \o fracPart),
                      \* the digits of the mantissa without the zeros in
                      \* front that stand before the point
                      exp + Len(StripLeading(intPart \o fracPart)) - Len(fracPart))

\* StringNumericLiteral without the white space around it: the empty string
\* is 0; 0x, 0o and 0b introduce an unsigned integer in base 16, 8 and 2;
\* anything else is a decimal literal with an optional sign, or NaN.
StringNumericLiteral(str) ==
  LET prefixed(lower, upper) ==
        /\ Len(str) >= 2
        /\ str[1] = "0"
        /\ str[2] \in {lower, upper}
      \* the bits of a digit of the base, 0 for a decimal literal
      width == IF prefixed("x", "X") THEN 4
               ELSE IF prefixed("o", "O") THEN 3
               ELSE IF prefixed("b", "B") THEN 1
               ELSE 0
      digitsOf == SubSeq(str, 3, Len(str))
  IN IF str = <<>> THEN Value("number")
     ELSE IF width > 0
     THEN (IF digitsOf # <<>> /\ \A i \in 1..Len(digitsOf) : IsBaseDigit(digitsOf[i], 2^width)
           THEN FromBase(digitsOf, width)
           ELSE NaN)
     ELSE UnsignedDecimalLiteral(str[1] = "-",
                                 IF str[1] \in {"+", "-"} THEN Tail(str) ELSE str)

\* StringToNumber: white space is trimmed.
StringToNumber(chars) == StringNumericLiteral(Trim(chars))

\* The conversion of x to a primitive throws: an object whose own property
\* toString is no function (valueOf gives the object itself, and a response
\* carries no function), an array with such an element (join converts it).
RECURSIVE ToPrimitiveThrows(_)
ToPrimitiveThrows(x) ==
  CASE x.t = "object" -> "toString" \in x.keys
    [] x.t = "array" -> \E i \in 1..Len(x.a) : ToPrimitiveThrows(x.a[i])
    [] OTHER -> FALSE

\* Number(x).  An object goes through its string '[object Object]'.  An
\* array goes through its string: no element gives 0, one element what the
\* element's string gives, more elements (a comma) NaN.
RECURSIVE Number(_)
Number(x) ==
  CASE x.t = "undefined" -> NaN
    [] x.t = "null" -> Value("number")
    [] x.t = "true" -> Num(1)
    [] x.t = "false" -> Value("number")
    [] x.t = "number" -> x
    [] x.t = "NaN" -> NaN
    [] x.t = "Infinity" -> x
    [] x.t = "string" -> StringToNumber(x.s)
    [] x.t = "object" -> IF ToPrimitiveThrows(x) THEN TypeError ELSE NaN
    [] x.t = "array" ->
         IF ToPrimitiveThrows(x) THEN TypeError
         ELSE IF x.a = <<>> THEN Value("number")
         ELSE IF Len(x.a) > 1 THEN NaN
         ELSE IF x.a[1].t \in {"undefined", "null"} THEN Value("number")
         ELSE IF x.a[1].t \in {"true", "false", "object"} THEN NaN
         ELSE Number(x.a[1])
    [] x.t = "TypeError" -> TypeError

\* a ?? b: b only when a is null or undefined.
Nullish(a, b) == IF a.t \in {"undefined", "null"} THEN b ELSE a

\* Number(x) ?? null
NumberOrNull(x) == Nullish(Number(x), Null)

\* Truthiness of a value.
Truthy(x) ==
  CASE x.t = "string" -> x.s # <<>>
    [] x.t = "number" -> x.int # <<>> \/ x.frac # <<>>
    [] x.t \in {"true", "Infinity", "object", "array"} -> TRUE
    [] OTHER -> FALSE

\* x || d: x when x is truthy, else d.
OrDefault(x, d) == IF Truthy(x) THEN x ELSE d

\* Number::toString of a finite number: plain digits up to 21 digits before
\* the point and down to 6 zeros after it, else the exponent form.
NumberToString(x) ==
  LET sign == IF x.neg THEN <<"-">> ELSE <<>>
      zeros == Len(x.frac) - Len(StripLeading(x.frac))
      sig == StripLeading(StripTrailing(x.int \o x.frac))
      mantissa == IF Len(sig) = 1 THEN sig ELSE <<sig[1], ".">> \o Tail(sig)
  IN IF x.int = <<>> /\ x.frac = <<>> THEN <<"0">>
     ELSE IF x.int # <<>> /\ Len(x.int) <= 21
     THEN sign \o x.int \o (IF x.frac = <<>> THEN <<>> ELSE <<".">> \o x.frac)
     ELSE IF x.int # <<>>
     THEN sign \o mantissa \o <<"e", "+">> \o NatDigits(Len(x.int) - 1)
     ELSE IF zeros < 6
     THEN sign \o <<"0", ".">> \o x.frac
     ELSE sign \o mantissa \o <<"e", "-">> \o NatDigits(zeros + 1)

\* String(x), as the template literal and the + of a string make it; the
\* elements of an array are joined with commas, null and undefined as ''.
RECURSIVE StringOf(_), Join(_)
Join(elements) ==
  IF elements = <<>> THEN <<>>
  ELSE LET e == elements[Len(elements)]
           text == IF e.t \in {"undefined", "null"} THEN <<>> ELSE StringOf(e)
       IN IF Len(elements) = 1 THEN text
          ELSE Join(SubSeq(elements, 1, Len(elements) - 1)) \o <<",">> \o text
StringOf(x) ==
  CASE x.t = "undefined" -> <<"u", "n", "d", "e", "f", "i", "n", "e", "d">>
    [] x.t = "null" -> <<"n", "u", "l", "l">>
    [] x.t = "true" -> <<"t", "r", "u", "e">>
    [] x.t = "false" -> <<"f", "a", "l", "s", "e">>
    [] x.t = "NaN" -> <<"N", "a", "N">>
    [] x.t = "Infinity" ->
         (IF x.neg THEN <<"-">> ELSE <<>>) \o <<"I", "n", "f", "i", "n", "i", "t", "y">>
    [] x.t = "number" -> NumberToString(x)
    [] x.t = "string" -> x.s
    [] x.t = "object" ->
         IF ToPrimitiveThrows(x) THEN TypeError
         ELSE <<"[", "o", "b", "j", "e", "c", "t", " ", "O", "b", "j", "e", "c", "t", "]">>
    [] x.t = "array" -> IF ToPrimitiveThrows(x) THEN TypeError ELSE Join(x.a)
    [] x.t = "TypeError" -> TypeError

\* The exact value of the finite number x without its sign.  An integer of
\* at most 15 digits is its double.
ExactOf(x) ==
  LET v == Unsigned(DigitValues(x.int \o x.frac), Len(x.int))
  IN IF Len(v.d) = 0 \/ (x.frac = <<>> /\ Len(x.int) <= 15) THEN v ELSE Exact(Binary(v))

\* The double nearest to 1 + v, to 1 - v when neg: v + 1, -(v - 1) for
\* v >= 1 and 1 - v for v < 1.
OnePlus(neg, int, frac) ==
  Decimal(neg /\ Len(int) > 0,
          DigitChars(IF ~neg THEN Increment(int)
                     ELSE IF Len(int) > 0 THEN Decrement(int)
                     ELSE <<>>),
          DigitChars(IF neg /\ Len(int) = 0
                     THEN Tuple([i \in 1..Len(frac) |->
                                   (IF i = Len(frac) THEN 10 ELSE 9) - frac[i]])
                     ELSE frac))

\* x + 1: the sum of two doubles (the double nearest to the exact sum) for
\* a number and for what becomes a number (null, undefined, a boolean), the
\* string followed by "1" for a string and for what becomes a string (an
\* object, an array).
PlusOne(x) ==
  CASE x.t = "number" -> OnePlus(x.neg, IntDigits(ExactOf(x)), FracDigits(ExactOf(x)))
    [] x.t \in {"null", "false"} -> Num(1)
    [] x.t = "true" -> Num(2)
    [] x.t \in {"undefined", "NaN"} -> NaN
    [] x.t = "Infinity" -> x
    [] x.t \in {"string", "object", "array"} ->
         IF ToPrimitiveThrows(x) THEN TypeError ELSE Str(StringOf(x) \o <<"1">>)
    [] x.t = "TypeError" -> TypeError

\* ------------------------------------------------------------- strings
UpperCase ==
  <<"A", "B", "C", "D", "E", "F", "G", "H", "I", "J", "K", "L", "M", "N", "O", "P",
    "Q", "R", "S", "T", "U", "V", "W", "X", "Y", "Z", "À", "Á", "Â", "Ã", "Ä", "Å",
    "Æ", "Ç", "È", "É", "Ê", "Ë", "Ì", "Í", "Î", "Ï", "Ð", "Ñ", "Ò", "Ó", "Ô", "Õ",
    "Ö", "Ø", "Ù", "Ú", "Û", "Ü", "Ý", "Þ">>
LowerCase ==
  <<"a", "b", "c", "d", "e", "f", "g", "h", "i", "j", "k", "l", "m", "n", "o", "p",
    "q", "r", "s", "t", "u", "v", "w", "x", "y", "z", "à", "á", "â", "ã", "ä", "å",
    "æ", "ç", "è", "é", "ê", "ë", "ì", "í", "î", "ï", "ð", "ñ", "ò", "ó", "ô", "õ",
    "ö", "ø", "ù", "ú", "û", "ü", "ý", "þ">>

\* The lower-case letter of each upper-case letter.
LowerOf ==
  [c \in {UpperCase[i] : i \in 1..Len(UpperCase)} |->
     LowerCase[CHOOSE i \in 1..Len(UpperCase) : UpperCase[i] = c]]

LowerChar(c) == IF c \in DOMAIN LowerOf THEN LowerOf[c] ELSE c

\* String.prototype.toLowerCase
toLowerCase(str) == [i \in 1..Len(str) |-> LowerChar(str[i])]

\* String.prototype.includes: scan the start positions from `from` on.
RECURSIVE includesFrom(_, _, _)
includesFrom(str, sub, from) ==
  IF from + Len(sub) - 1 > Len(str) THEN FALSE
  ELSE IF SubSeq(str, from, from + Len(sub) - 1) = sub THEN TRUE
  ELSE includesFrom(str, sub, from + 1)

includes(str, sub) == includesFrom(str, sub, 1)

\* The default texts of the normalisation.
NoTitle == <<"N", "o", " ", "T", "i", "t", "l", "e">>
Unknown == <<"U", "n", "k", "n", "o", "w", "n">>
UnknownCompany == <<"U", "n", "k", "n", "o", "w", "n", " ", "C", "o", "m", "p", "a", "n", "y">>
Unspecified == <<"U", "n", "s", "p", "e", "c", "i", "f", "i", "e", "d">>

\* ------------------------------------------------------- server records
\* An element of the jobs array of a response is a raw record, of which
\* every field may be absent, or a value that is no object (null, a number,
\* a string).
AbsentRecord ==
  [title |-> Undefined, mainCategory |-> Undefined, pubDate |-> Undefined,
   expiryDate |-> Undefined, companyName |-> Undefined, jobType |-> Undefined,
   workModel |-> Undefined, seniorityLevel |-> Undefined, minSalary |-> Undefined,
   maxSalary |-> Undefined, companyLogo |-> Undefined]

RawEngineer ==
  [AbsentRecord EXCEPT !.title = Str(<<"A", "b">>), !.companyName = Str(<<"C", "d">>),
                       !.jobType = Str(<<>>), !.pubDate = Str(<<"1", "2">>),
                       !.expiryDate = Null, !.minSalary = Num(5),
                       !.maxSalary = Str(<<"x">>)]

\* A record with a field that has no primitive: its own toString is no
\* function.
Unconvertible == [AbsentRecord EXCEPT !.minSalary = Object({"toString"})]

\* A record with a number where the Job type has a string: the title is as
\* that of RawEngineer, the company name is 5.
NumberCompany ==
  [AbsentRecord EXCEPT !.title = Str(<<"A", "b">>), !.companyName = Num(5)]

\* The jobs arrays a response may carry: no record, two records, two
\* records of which Number() throws on the second, one record with a
\* number as its company name.
Batches ==
  {<<>>, <<RawEngineer, AbsentRecord>>, <<RawEngineer, Unconvertible>>, <<NumberCompany>>}

\* What a request may come back with: a jobs array, a payload whose jobs
\* field is no array, a network error.
Outcomes ==
  {[kind |-> "ok", jobs |-> b] : b \in Batches}
    \cup {[kind |-> "notArray", jobs |-> <<>>], [kind |-> "error", jobs |-> <<>>]}

\* The page numbers passed explicitly.
PageNumbers == {Num(1), Num(2)}

\* What loadMoreJobs is called with: a page number, or the info object
\* that FlatList passes to onEndReached (JobFinderScreen.tsx:232).
OnEndReachedInfo == Object({"distanceFromEnd"})
LoadMoreArguments == {Num(1), OnEndReachedInfo}

\* The texts typed in the search box.
SearchTexts == {<<>>, <<"b", "C">>, <<"A", "B">>}

\* job.name: the field of a raw record, undefined for a value that has no
\* such property.  (Of null and undefined it throws: see mapThrows.)
Field(job, name) == IF "t" \in DOMAIN job THEN Undefined ELSE job[name]

\* One element of jobsWithIds: the raw record with a fresh id and defaults.
jobWithId(job, id) ==
  [id |-> id,
   title |-> OrDefault(Field(job, "title"), Str(NoTitle)),
   mainCategory |-> OrDefault(Field(job, "mainCategory"), Str(Unknown)),
   pubDate |-> NumberOrNull(Field(job, "pubDate")),
   expiryDate |-> NumberOrNull(Field(job, "expiryDate")),
   companyName |-> OrDefault(Field(job, "companyName"), Str(UnknownCompany)),
   jobType |-> OrDefault(Field(job, "jobType"), Str(Unknown)),
   workModel |-> OrDefault(Field(job, "workModel"), Str(Unknown)),
   seniorityLevel |-> OrDefault(Field(job, "seniorityLevel"), Str(Unspecified)),
   minSalary |-> NumberOrNull(Field(job, "minSalary")),
   maxSalary |-> NumberOrNull(Field(job, "maxSalary")),
   companyLogo |-> OrDefault(Field(job, "companyLogo"), Str(<<>>))]

\* The map callback throws on this element: job.title of null or of
\* undefined, Number() of a field that has no primitive.
elementThrows(job) ==
  IF "t" \in DOMAIN job THEN job.t \in {"null", "undefined"}
  ELSE \E name \in {"pubDate", "expiryDate", "minSalary", "maxSalary"} :
         ToPrimitiveThrows(job[name])

\* The map callback throws on an element, and the catch of fetchJobs takes
\* the request as failed; uuid.v4() has been called for that element and
\* for those before it.
mapThrows(batch) == \E i \in 1..Len(batch) : elementThrows(batch[i])
idsMade(batch) ==
  IF mapThrows(batch)
  THEN CHOOSE i \in 1..Len(batch) :
         elementThrows(batch[i]) /\ \A j \in 1..(i - 1) : ~elementThrows(batch[j])
  ELSE Len(batch)
settledKind(o) == IF o.kind = "ok" /\ mapThrows(o.jobs) THEN "error" ELSE o.kind

\* jobsWithIds with the position in the batch as the id.
jobsWithIdsByIndex(batch, first) ==
  [i \in 1..Len(batch) |-> jobWithId(batch[i], i)]

\* response.data.jobs.map(...): ids first, first + 1, ... in traversal order.
jobsWithIds(batch, first) ==
  [i \in 1..Len(batch) |-> jobWithId(batch[i], first + i - 1)]

\* ------------------------------------------------------------------ state
VARIABLES
  savedJobs,      \* useState<Job[]>([])   line 48
  jobs,           \* useState<Job[]>([])   line 49
  filteredJobs,   \* useState<Job[]>([])   line 50
  loading,        \* useState(false)       line 51
  loadingMore,    \* useState(false)       line 52
  page,           \* useState(1)           line 53
  mounted,        \* the mount effect has run
  inflight,       \* the axios.get calls that have not settled
  pending,        \* the loadMoreJobs continuation due next: <<>> or <<closure jobs>>
  nreq,           \* requests issued so far
  nextId,         \* the next fresh identifier
  last            \* the step just taken (history, read by the properties only)

vars == <<savedJobs, jobs, filteredJobs, loading, loadingMore, page, mounted,
          inflight, pending, nreq, nextId, last>>

Step(op) ==
  [op |-> op, accepted |-> TRUE, busy |-> FALSE, noArg |-> FALSE, append |-> FALSE,
   origin |-> "", kind |-> "", batch |-> <<>>, text |-> <<>>, jobId |-> 0,
   index |-> 0, changed |-> FALSE, repeat |-> FALSE]

Init ==
  /\ savedJobs = <<>>
  /\ jobs = <<>>
  /\ filteredJobs = <<>>
  /\ loading = FALSE
  /\ loadingMore = FALSE
  /\ page = Num(1)
  /\ mounted = FALSE
  /\ inflight = {}
  /\ pending = <<>>
  /\ nreq = 0
  /\ nextId = 1
  /\ last = Step("init")

\* ------------------------------------------------------------- fetchJobs
\* The loading and loadingMore that fetchJobs reads: useCallback has no
\* dependencies, so they are those of the first render.
fetchJobsLoading == FALSE
fetchJobsLoadingMore == FALSE

\* if (loading || loadingMore) return;
fetchJobsReturnsEarly == fetchJobsLoading \/ fetchJobsLoadingMore

\* fetchJobs(pageNumber, append) makes a request: it does not return early,
\* and the template literal of the address does not throw on pageNumber.
fetchJobsRequests(pageNumber) == ~fetchJobsReturnsEarly /\ ~ToPrimitiveThrows(pageNumber)

\* The synchronous part of fetchJobs(pageNumber, append), up to the await:
\* the early return, the busy flag, the request.  loadingIn/loadingMoreIn are
\* the flags as the caller left them.  When the address throws, inside the
\* try, no request is made and the flags are cleared after the catch.
fetchJobsStart(pageNumber, append, origin, closure, loadingIn, loadingMoreIn) ==
  IF fetchJobsReturnsEarly
  THEN /\ loading' = loadingIn
       /\ loadingMore' = loadingMoreIn
       /\ UNCHANGED <<inflight, nreq>>
  ELSE IF ToPrimitiveThrows(pageNumber)
  THEN /\ loading' = FALSE
       /\ loadingMore' = FALSE
       /\ UNCHANGED <<inflight, nreq>>
  ELSE /\ loading' = IF pageNumber = Num(1) THEN TRUE ELSE loadingIn
       /\ loadingMore' = IF pageNumber = Num(1) THEN loadingMoreIn ELSE TRUE
       /\ nreq' = nreq + 1
       /\ inflight' = inflight \cup
            {[rid |-> nreq + 1, pageNumber |-> pageNumber, append |-> append,
              origin |-> origin, closure |-> closure]}

\* useEffect(() => { fetchJobs(); }, [fetchJobs]): page 1, no append.
Mount ==
  /\ ~mounted
  /\ mounted' = TRUE
  /\ fetchJobsStart(Num(1), FALSE, "mount", <<>>, loading, loadingMore)
  /\ last' = Step("mount")
  /\ UNCHANGED <<savedJobs, jobs, filteredJobs, page, pending, nextId>>

\* A task of the user interface starts: the mount effect has run and no
\* continuation is due.
Ready == mounted /\ pending = <<>>

\* fetchJobs(pageNumber, append) called through the context.
FetchJobs(pageNumber, append) ==
  /\ Ready
  /\ nreq < MaxReq
  /\ fetchJobsStart(pageNumber, append, "fetchJobs", <<>>, loading, loadingMore)
  /\ last' = [Step("fetchJobs") EXCEPT !.append = append,
                !.busy = (loading \/ loadingMore),
                !.accepted = fetchJobsRequests(pageNumber)]
  /\ UNCHANGED <<savedJobs, jobs, filteredJobs, page, mounted, pending, nextId>>

\* listAfter without the Array.isArray test: whatever came back is taken as
\* the batch.
listAfterUnchecked(prev, kind, append, jobsWithIdsNew) ==
  IF append THEN prev \o jobsWithIdsNew ELSE jobsWithIdsNew

\* listAfter with the batch put in front when appending.
listAfterPrepend(prev, kind, append, jobsWithIdsNew) ==
  IF kind = "ok"
  THEN IF append THEN jobsWithIdsNew \o prev ELSE jobsWithIdsNew
  ELSE prev

\* setJobs / setFilteredJobs of a settled request: the list after it.
listAfter(prev, kind, append, jobsWithIdsNew) ==
  IF kind = "ok"
  THEN IF append THEN prev \o jobsWithIdsNew ELSE jobsWithIdsNew
  ELSE prev

\* flagAfter with the flags cleared at the end of the try block only.
flagAfterInsideTry(cur, kind) == IF kind = "error" THEN cur ELSE FALSE

\* setLoading(false) / setLoadingMore(false) after the try/catch.
flagAfter(cur, kind) == FALSE

\* Settle with a replacing fetch also emptying savedJobs.
SettleDropsSaved(r, o) ==
  /\ Ready
  /\ r \in inflight
  /\ nextId + idsMade(o.jobs) - 1 <= MaxRecords
  /\ LET kind == settledKind(o)
         new == IF mapThrows(o.jobs) THEN <<>> ELSE jobsWithIds(o.jobs, nextId)
     IN /\ jobs' = listAfter(jobs, kind, r.append, new)
        /\ filteredJobs' = listAfter(filteredJobs, kind, r.append, new)
        /\ nextId' = nextId + idsMade(o.jobs)
        /\ last' = [Step("settle") EXCEPT !.append = r.append, !.origin = r.origin,
                      !.kind = kind, !.batch = new]
        /\ pending' = IF r.origin = "loadMoreJobs"
                      THEN <<[jobs |-> r.closure, kind |-> kind]>> ELSE <<>>
  /\ savedJobs' = IF settledKind(o) = "ok" /\ ~r.append THEN <<>> ELSE savedJobs
  /\ loading' = flagAfter(loading, settledKind(o))
  /\ loadingMore' = flagAfter(loadingMore, settledKind(o))
  /\ inflight' = inflight \ {r}
  /\ UNCHANGED <<page, mounted, nreq>>

\* The request r settles with outcome o: the rest of fetchJobs.  When r was
\* issued by loadMoreJobs its continuation is due next.
Settle(r, o) ==
  /\ Ready
  /\ r \in inflight
  /\ nextId + idsMade(o.jobs) - 1 <= MaxRecords
  /\ LET kind == settledKind(o)
         new == IF mapThrows(o.jobs) THEN <<>> ELSE jobsWithIds(o.jobs, nextId)
     IN /\ jobs' = listAfter(jobs, kind, r.append, new)
        /\ filteredJobs' = listAfter(filteredJobs, kind, r.append, new)
        /\ nextId' = nextId + idsMade(o.jobs)
        /\ last' = [Step("settle") EXCEPT !.append = r.append, !.origin = r.origin,
                      !.kind = kind, !.batch = new]
        /\ pending' = IF r.origin = "loadMoreJobs"
                      THEN <<[jobs |-> r.closure, kind |-> kind]>> ELSE <<>>
  /\ loading' = flagAfter(loading, settledKind(o))
  /\ loadingMore' = flagAfter(loadingMore, settledKind(o))
  /\ inflight' = inflight \ {r}
  /\ UNCHANGED <<savedJobs, page, mounted, nreq>>

\* ------------------------------------------------------------ searchJobs
\* job => [title, companyName, mainCategory, jobType, workModel,
\* seniorityLevel].some(field => (field || '').toLowerCase().includes(text))
searchFields(job) ==
  <<job.title, job.companyName, job.mainCategory, job.jobType, job.workModel,
    job.seniorityLevel>>

\* (field || '').toLowerCase() throws on a truthy value that is no string.
fieldThrows(field) == Truthy(field) /\ field.t # "string"

\* (field || '').toLowerCase().includes(lowerCaseText) of a field that
\* does not throw.
fieldMatches(field, lowerCaseText) ==
  /\ ~fieldThrows(field)
  /\ includes(toLowerCase(OrDefault(field, Str(<<>>)).s), lowerCaseText)

\* some() has met a field that throws before one that matches.
jobThrows(job, lowerCaseText) ==
  \E k \in 1..Len(searchFields(job)) :
    /\ fieldThrows(searchFields(job)[k])
    /\ \A j \in 1..(k - 1) : ~fieldMatches(searchFields(job)[j], lowerCaseText)

\* jobMatches without lower-casing the field.
jobMatchesCaseSensitive(job, lowerCaseText) ==
  \E k \in 1..Len(searchFields(job)) :
    /\ ~fieldThrows(searchFields(job)[k])
    /\ includes(OrDefault(searchFields(job)[k], Str(<<>>)).s, lowerCaseText)
    /\ \A j \in 1..(k - 1) : ~fieldThrows(searchFields(job)[j])

\* some() has met a field that matches before one that throws.
jobMatches(job, lowerCaseText) ==
  \E k \in 1..Len(searchFields(job)) :
    /\ fieldMatches(searchFields(job)[k], lowerCaseText)
    /\ \A j \in 1..(k - 1) : ~fieldThrows(searchFields(job)[j])

\* filter() throws, and searchJobs with it, before setFilteredJobs.
searchJobsThrows(closureJobs, text) ==
  /\ text # <<>>
  /\ \E i \in 1..Len(closureJobs) : jobThrows(closureJobs[i], toLowerCase(text))

\* searchJobsResult with the empty text showing nothing.
searchJobsResultEmptyHides(closureJobs, text) ==
  IF text = <<>>
  THEN <<>>
  ELSE LET lowerCaseText == toLowerCase(text)
           keep(job) == jobMatches(job, lowerCaseText)
       IN SelectSeq(closureJobs, keep)

\* searchJobsResult with the matches added behind the list shown so far.
searchJobsResultAccumulates(closureJobs, text) ==
  IF text = <<>>
  THEN closureJobs
  ELSE LET lowerCaseText == toLowerCase(text)
           keep(job) == jobMatches(job, lowerCaseText)
       IN filteredJobs \o SelectSeq(closureJobs, keep)

\* The list searchJobs(text) passes to setFilteredJobs, `closureJobs` being
\* the jobs of the render that made this searchJobs.
searchJobsResult(closureJobs, text) ==
  IF text = <<>>
  THEN closureJobs
  ELSE LET lowerCaseText == toLowerCase(text)
           keep(job) == jobMatches(job, lowerCaseText)
       IN SelectSeq(closureJobs, keep)

\* searchJobs(text) called through the context (handleSearch).
SearchJobs(text) ==
  /\ Ready
  /\ filteredJobs' = IF searchJobsThrows(jobs, text) THEN filteredJobs
                     ELSE searchJobsResult(jobs, text)
  /\ last' = [Step("searchJobs") EXCEPT !.text = text,
                !.changed = (filteredJobs' # filteredJobs),
                !.repeat = (last.op = "searchJobs" /\ last.text = text)]
  /\ UNCHANGED <<savedJobs, jobs, loading, loadingMore, page, mounted, inflight,
                 pending, nreq, nextId>>

\* ----------------------------------------------------------- loadMoreJobs
\* if (loadingMore || loading) return;  read from the latest render.
loadMoreJobsReturnsEarly == loadingMore \/ loading

\* loadMoreJobs(pageNumber) up to its await: the guard, setLoadingMore(true),
\* setPage(pageNumber), then fetchJobs(pageNumber, true) up to its own await.
\* When fetchJobs makes no request the await is over at once and the rest
\* of loadMoreJobs is due next.
loadMoreJobsStart(pageNumber, noArg) ==
  /\ Ready
  /\ IF loadMoreJobsReturnsEarly
     THEN /\ UNCHANGED <<loading, loadingMore, page, inflight, nreq, pending>>
          /\ last' = [Step("loadMoreJobs") EXCEPT !.noArg = noArg, !.busy = TRUE,
                        !.accepted = FALSE]
     ELSE /\ nreq < MaxReq
          /\ page' = pageNumber
          /\ fetchJobsStart(pageNumber, TRUE, "loadMoreJobs", jobs, loading, TRUE)
          /\ pending' = IF fetchJobsRequests(pageNumber) THEN pending
                        ELSE <<[jobs |-> jobs, kind |-> "error"]>>
          /\ last' = [Step("loadMoreJobs") EXCEPT !.noArg = noArg, !.append = TRUE]
  /\ UNCHANGED <<savedJobs, jobs, filteredJobs, mounted, nextId>>

\* loadMoreJobs(): pageNumber defaults to page + 1.  When page + 1 throws,
\* the call is over before its first statement.
LoadMoreJobs ==
  IF ToPrimitiveThrows(page)
  THEN /\ Ready
       /\ last' = [Step("loadMoreJobs") EXCEPT !.noArg = TRUE, !.accepted = FALSE]
       /\ UNCHANGED <<savedJobs, jobs, filteredJobs, loading, loadingMore, page, mounted,
                      inflight, pending, nreq, nextId>>
  ELSE loadMoreJobsStart(PlusOne(page), TRUE)

\* loadMoreJobs(pageNumber) with the page given.
LoadMoreJobsPage(pageNumber) == loadMoreJobsStart(pageNumber, FALSE)

\* Reapply without the searchJobs(''): the list shown stays as it is.
ReapplyKeepsFilter ==
  /\ pending # <<>>
  /\ pending' = <<>>
  /\ last' = [Step("reapply") EXCEPT !.origin = "loadMoreJobs", !.append = TRUE,
                !.kind = pending[1].kind, !.batch = last.batch]
  /\ UNCHANGED <<savedJobs, jobs, filteredJobs, loading, loadingMore, page, mounted,
                 inflight, nreq, nextId>>

\* The rest of loadMoreJobs, right after its fetch has settled:
\* searchJobs('') of the render in which loadMoreJobs was called.
Reapply ==
  /\ pending # <<>>
  /\ filteredJobs' = searchJobsResult(pending[1].jobs, <<>>)
  /\ pending' = <<>>
  /\ last' = [Step("reapply") EXCEPT !.origin = "loadMoreJobs", !.append = TRUE,
                !.kind = pending[1].kind, !.batch = last.batch,
                !.changed = (filteredJobs' # filteredJobs)]
  /\ UNCHANGED <<savedJobs, jobs, loading, loadingMore, page, mounted, inflight,
                 nreq, nextId>>

\* ------------------------------------------------------ addJob, removeJob
\* addJobResult without the find.
addJobResultAlways(prevJobs, job) == Append(prevJobs, job)

\* The updater of addJob: prevJobs when a posting has job's id, else
\* prevJobs with job at the end.
addJobResult(prevJobs, job) ==
  IF \E i \in 1..Len(prevJobs) : prevJobs[i].id = job.id
  THEN prevJobs
  ELSE Append(prevJobs, job)

\* removeJobResult with the test inverted.
removeJobResultInverted(prevJobs, jobId) ==
  LET keep(job) == job.id = jobId IN SelectSeq(prevJobs, keep)

\* removeJobResult with the last posting moved into the place of the one
\* removed.
removeJobResultSwap(prevJobs, jobId) ==
  IF \A i \in 1..Len(prevJobs) : prevJobs[i].id # jobId
  THEN prevJobs
  ELSE LET at == CHOOSE i \in 1..Len(prevJobs) : prevJobs[i].id = jobId
       IN SubSeq([prevJobs EXCEPT ![at] = prevJobs[Len(prevJobs)]], 1, Len(prevJobs) - 1)

\* The updater of removeJob: prevJobs.filter(job => job.id !== jobId).
removeJobResult(prevJobs, jobId) ==
  LET keep(job) == job.id # jobId IN SelectSeq(prevJobs, keep)

\* The ids removeJob is called with: those of the saved postings
\* (SavedJobsScreen.tsx:123), and one that no posting has.
RemovedIds == {savedJobs[i].id : i \in 1..Len(savedJobs)} \cup {nextId}

AddJob(job) ==
  /\ Ready
  /\ Len(addJobResult(savedJobs, job)) <= MaxSaved
  /\ savedJobs' = addJobResult(savedJobs, job)
  /\ last' = [Step("addJob") EXCEPT !.jobId = job.id,
                !.changed = (savedJobs' # savedJobs)]
  /\ UNCHANGED <<jobs, filteredJobs, loading, loadingMore, page, mounted, inflight,
                 pending, nreq, nextId>>

RemoveJob(jobId) ==
  /\ Ready
  /\ savedJobs' = removeJobResult(savedJobs, jobId)
  /\ last' = [Step("removeJob") EXCEPT !.jobId = jobId,
                !.index = IF \E i \in 1..Len(savedJobs) : savedJobs[i].id = jobId
                          THEN CHOOSE i \in 1..Len(savedJobs) : savedJobs[i].id = jobId
                          ELSE 0,
                !.changed = (savedJobs' # savedJobs)]
  /\ UNCHANGED <<jobs, filteredJobs, loading, loadingMore, page, mounted, inflight,
                 pending, nreq, nextId>>

\* ------------------------------------------------------------------- next
Next ==
  \/ Mount
  \/ \E pageNumber \in PageNumbers, append \in BOOLEAN : FetchJobs(pageNumber, append)
  \/ \E r \in inflight, o \in Outcomes : Settle(r, o)
  \/ LoadMoreJobs
  \/ \E pageNumber \in LoadMoreArguments : LoadMoreJobsPage(pageNumber)
  \/ Reapply
  \/ \E text \in SearchTexts : SearchJobs(text)
  \* addJob(item) of a posting shown (JobFinderScreen.tsx:148)
  \/ \E i \in 1..Len(filteredJobs) : AddJob(filteredJobs[i])
  \/ \E jobId \in RemovedIds : RemoveJob(jobId)

Spec == Init /\ [][Next]_vars

\* ----------------------------------------------------------- properties
Ids(seq) == {seq[i].id : i \in 1..Len(seq)}

\* C1: fetchJobs called while loading or loadingMore is true is a no-op: it
\* issues no request and leaves jobs, filteredJobs and page as they were.
C1_BusyFetchIsNoOp ==
  [][(last'.op = "fetchJobs" /\ (loading \/ loadingMore))
       => (inflight' = inflight /\ jobs' = jobs /\ filteredJobs' = filteredJobs
           /\ page' = page)]_vars

\* C2: at most one page request is outstanding in every reachable state.
C2_AtMostOneOutstanding == Cardinality(inflight) <= 1

\* C3: every fetch that settles (jobs array, non-array payload or network
\* error) ends with loading and loadingMore false, and so does the
\* loadMoreJobs continuation after it; the guards of fetchJobs and
\* loadMoreJobs then let a new call through.
C3_SettleClearsBusy ==
  [][(last'.op \in {"settle", "reapply"})
       => (~loading' /\ ~loadingMore' /\ ~loadMoreJobsReturnsEarly'
           /\ ~fetchJobsReturnsEarly')]_vars

\* A request has failed with a network error and the store is idle after it.
C3_Witness ==
  /\ last.op = "settle"
  /\ last.kind = "error"
  /\ ~loading
  /\ ~loadingMore
  /\ pending = <<>>

\* C4: a fetchJobs whose request fails (network error or non-array jobs)
\* leaves jobs, filteredJobs, savedJobs and page as they were: neither the
\* call nor the failure changes them, with and without append.
C4_FailureLeavesLists ==
  [][((last'.op = "settle" /\ last'.kind # "ok") \/ last'.op \in {"mount", "fetchJobs"})
       => (jobs' = jobs /\ filteredJobs' = filteredJobs /\ savedJobs' = savedJobs
           /\ page' = page)]_vars

\* A replacing fetch comes back with a non-array payload while postings are
\* loaded, a filter is active and a posting is saved.
C4_Witness ==
  /\ last.op = "settle"
  /\ last.kind = "notArray"
  /\ ~last.append
  /\ jobs # <<>>
  /\ filteredJobs # jobs
  /\ savedJobs # <<>>

\* C5: an accepted loadMoreJobs() issues exactly one request, for page + 1;
\* when it succeeds with batch B, jobs is the previous jobs followed by B,
\* and once loadMoreJobs has finished filteredJobs equals jobs.
C5_LoadMoreShowsAll ==
  [][/\ (last'.op = "loadMoreJobs" /\ last'.accepted /\ last'.noArg)
          => \E r \in inflight' \ inflight :
               /\ inflight' = inflight \cup {r}
               /\ r.pageNumber = PlusOne(page)
     /\ (last'.op = "settle" /\ last'.origin = "loadMoreJobs" /\ last'.kind = "ok")
          => jobs' = jobs \o last'.batch
     /\ (last'.op = "reapply" /\ last'.kind = "ok")
          => filteredJobs' = jobs']_vars

\* C6: searchJobs('') leaves filteredJobs equal to jobs.
C6_EmptySearchShowsAll ==
  (last.op = "searchJobs" /\ last.text = <<>>) => filteredJobs = jobs

\* searchJobs('') has reset a filter that hid postings.
C6_Witness ==
  /\ last.op = "searchJobs"
  /\ last.text = <<>>
  /\ last.changed
  /\ jobs # <<>>
  /\ filteredJobs = jobs

\* str has sub as a substring: sub occurs at some offset.
Contains(str, sub) ==
  \E off \in 0..(Len(str) - Len(sub)) : \A j \in 1..Len(sub) : str[off + j] = sub[j]

\* The concatenation of the six searched fields.
Concatenation(job) ==
  job.title.s \o job.companyName.s \o job.mainCategory.s \o job.jobType.s
    \o job.workModel.s \o job.seniorityLevel.s

\* The lower-cased text occurs in the lower-cased concatenation of the fields.
MatchesConcatenation(job, text) ==
  Contains(toLowerCase(Concatenation(job)), toLowerCase(text))

\* The six searched fields in the order in which the search goes through
\* them.
SearchedFields(job) ==
  <<job.title, job.companyName, job.mainCategory, job.jobType, job.workModel,
    job.seniorityLevel>>

\* The field is a string, and the lower-cased text occurs in it, lower-cased.
FieldHasText(field, text) ==
  field.t = "string" /\ Contains(toLowerCase(field.s), toLowerCase(text))

\* The lower-cased text occurs in at least one lower-cased field.
MatchesSomeField(job, text) ==
  \E k \in 1..6 : FieldHasText(SearchedFields(job)[k], text)

\* The search reaches a field of the posting that is no string: none of the
\* fields before it has the text.
ReachesNoString(job, text) ==
  \E k \in 1..6 :
    /\ SearchedFields(job)[k].t # "string"
    /\ \A j \in 1..(k - 1) : ~FieldHasText(SearchedFields(job)[j], text)

\* searchJobs(text) reaches, in some posting of all, a field that is no string.
SearchFails(all, text) == \E i \in 1..Len(all) : ReachesNoString(all[i], text)

\* The positions of all that satisfy Keep, and the k-th of them.
Kept(all, Keep(_)) == {i \in 1..Len(all) : Keep(all[i])}
KthOf(S, k) == CHOOSE i \in S : Cardinality({j \in S : j <= i}) = k

\* shown is exactly the postings of all that satisfy Keep, in the order of all.
IsSelection(shown, all, Keep(_)) ==
  /\ Len(shown) = Cardinality(Kept(all, Keep))
  /\ \A k \in 1..Len(shown) : shown[k] = all[KthOf(Kept(all, Keep), k)]

\* C7 as claimed: searchJobs(text) with a non-empty text leaves in
\* filteredJobs exactly the postings of jobs, in order, whose lower-cased
\* concatenation of the six fields has the lower-cased text as a substring.
C7_ConcatenationMatch ==
  (last.op = "searchJobs" /\ last.text # <<>>)
    => LET Keep(job) == MatchesConcatenation(job, last.text)
       IN IsSelection(filteredJobs, jobs, Keep)

\* C7 as amended: searchJobs(text) with a non-empty text goes through the
\* six fields of each posting of jobs in order, up to the first that has
\* the text.  When every field it reaches is a string, it leaves in
\* filteredJobs exactly the postings of jobs, in order, of which at least one
\* of the six fields, lower-cased, has the lower-cased text as a substring.
\* When it reaches a field that is no string, it throws and filteredJobs
\* stays as it was.
C7_SomeFieldMatch ==
  [][(last'.op = "searchJobs" /\ last'.text # <<>>)
       => IF SearchFails(jobs, last'.text)
          THEN filteredJobs' = filteredJobs
          ELSE LET Keep(job) == MatchesSomeField(job, last'.text)
               IN IsSelection(filteredJobs', jobs, Keep)]_vars

\* A search in upper case has kept some postings, whose fields are in mixed
\* case, and left others out; one of those kept has a number as its company
\* name, which that search did not reach.  The search after it, with a text
\* that no title has, has reached the number and left the list as it was.
C7_Witness ==
  /\ last.op = "searchJobs"
  /\ last.text = <<"b", "C">>
  /\ SearchFails(jobs, last.text)
  /\ ~SearchFails(jobs, <<"A", "B">>)
  /\ filteredJobs # <<>>
  /\ Len(filteredJobs) < Len(jobs)
  /\ \E i \in 1..Len(filteredJobs) : filteredJobs[i].companyName.t = "number"
  /\ LET Keep(job) == MatchesSomeField(job, <<"A", "B">>)
     IN IsSelection(filteredJobs, jobs, Keep)

\* C8: a fetch that succeeds with batch B sets, with append, jobs to the old
\* jobs followed by B and filteredJobs to the old filteredJobs followed by B;
\* without append it sets both to B.
C8_AppendOrReplace ==
  [][(last'.op = "settle" /\ last'.kind = "ok")
       => IF last'.append
          THEN /\ jobs' = jobs \o last'.batch
               /\ filteredJobs' = filteredJobs \o last'.batch
          ELSE /\ jobs' = last'.batch
               /\ filteredJobs' = last'.batch]_vars

\* An appending fetch has added a batch behind loaded postings while a
\* filter hid some of them.
C8_Witness ==
  /\ last.op = "settle"
  /\ last.kind = "ok"
  /\ last.append
  /\ last.batch # <<>>
  /\ Len(jobs) > Len(last.batch)
  /\ Len(filteredJobs) < Len(jobs)
  /\ Len(filteredJobs) > Len(last.batch)

\* No two postings of seq carry the same id.
NoDuplicateId(seq) == \A i, j \in 1..Len(seq) : seq[i].id = seq[j].id => i = j

\* C9: savedJobs never holds two postings with the same id, and addJob of
\* a posting whose id is already saved changes nothing.
C9_NoDuplicateSaved ==
  [][/\ NoDuplicateId(savedJobs')
     /\ (last'.op = "addJob" /\ last'.jobId \in Ids(savedJobs))
          => savedJobs' = savedJobs]_vars

\* addJob was called for a posting already saved, next to another one.
C9_Witness ==
  /\ last.op = "addJob"
  /\ ~last.changed
  /\ last.jobId \in Ids(savedJobs)
  /\ Len(savedJobs) > 1

\* C10: removeJob(id) leaves savedJobs as it is when no saved posting has
\* the id, and otherwise takes out the posting with the id and no other.
C10_RemoveOnlyThat ==
  [][(last'.op = "removeJob")
       => IF last'.jobId \notin Ids(savedJobs)
          THEN savedJobs' = savedJobs
          ELSE \E i \in 1..Len(savedJobs) :
                 /\ savedJobs[i].id = last'.jobId
                 /\ savedJobs' = SubSeq(savedJobs, 1, i - 1)
                                   \o SubSeq(savedJobs, i + 1, Len(savedJobs))]_vars

\* removeJob has taken a posting out and another one is still saved.
C10_Witness ==
  /\ last.op = "removeJob"
  /\ last.changed
  /\ savedJobs # <<>>
  /\ last.jobId \notin Ids(savedJobs)

\* The page is a natural number below another.
IsPageNumber(x) == x.t = "number" /\ ~x.neg /\ x.frac = <<>>
PageBelow(x, y) ==
  Len(x.int) < Len(y.int) \/ (Len(x.int) = Len(y.int) /\ DigitsBelow(x.int, y.int))

\* C11 as stated: page is a page number that never decreases, whatever the
\* operation, and an accepted loadMoreJobs() without argument raises it by
\* exactly 1.
C11_PageNeverDecreases ==
  [][/\ IsPageNumber(page')
     /\ IsPageNumber(page) => ~PageBelow(page', page)
     /\ (last'.op = "loadMoreJobs" /\ last'.accepted /\ last'.noArg)
          => (IsPageNumber(page) /\ page' = PlusOne(page))]_vars

\* C12: no two postings of jobs carry the same id, within the batch of one
\* fetch and across the batches that successive fetches appended.
C12_UniqueIds ==
  /\ NoDuplicateId(jobs)
  /\ NoDuplicateId(last.batch)

\* The same two server records were fetched twice, the second batch
\* appended to the first: four postings, equal in pairs but for the id.
C12_Witness ==
  /\ last.op = "settle"
  /\ last.kind = "ok"
  /\ last.append
  /\ Len(jobs) = 4
  /\ Len(last.batch) = 2
  /\ jobs[1].id # jobs[3].id
  /\ [jobs[1] EXCEPT !.id = 0] = [jobs[3] EXCEPT !.id = 0]
  /\ [jobs[2] EXCEPT !.id = 0] = [jobs[4] EXCEPT !.id = 0]

\* C13: savedJobs is changed by addJob and removeJob only: issuing or
\* settling a fetch (whatever its outcome, appending or replacing),
\* loadMoreJobs and its continuation, and searchJobs leave it as it is.
C13_OnlySaveAndRemove ==
  [][(savedJobs' # savedJobs) => last'.op \in {"addJob", "removeJob"}]_vars

\* A replacing fetch has succeeded and jobs holds none of the saved
\* postings any more.
C13_Witness ==
  /\ last.op = "settle"
  /\ last.kind = "ok"
  /\ ~last.append
  /\ jobs # <<>>
  /\ savedJobs # <<>>
  /\ Ids(savedJobs) \cap Ids(jobs) = {}

\* The numeric fields of a posting.
NumericFields == {"minSalary", "maxSalary", "pubDate", "expiryDate"}

\* C14 as stated: every numeric field of every posting of jobs is a number
\* or the missing marker null, never NaN.
C14_NeverNaN ==
  \A i \in 1..Len(jobs) : \A f \in NumericFields :
    jobs[i][f].t \in {"number", "null"}

\* C15: searchJobs never changes jobs, and searchJobs with a non-empty text
\* called right after searchJobs with the same text leaves filteredJobs as
\* the first call made it.
C15_SearchIdempotent ==
  [][/\ (last'.op = "searchJobs") => jobs' = jobs
     /\ (last'.op = "searchJobs" /\ last'.repeat /\ last'.text # <<>>)
          => filteredJobs' = filteredJobs]_vars

\* The same non-empty text was searched twice in a row and it shows some
\* of the loaded postings, not all.
C15_Witness ==
  /\ last.op = "searchJobs"
  /\ last.repeat
  /\ last.text # <<>>
  /\ filteredJobs # <<>>
  /\ Len(filteredJobs) < Len(jobs)

\* The postings of sub are, by id, postings of seq in the same relative order.
RECURSIVE IsSubsequenceById(_, _)
IsSubsequenceById(sub, seq) ==
  IF sub = <<>> THEN TRUE
  ELSE IF seq = <<>> THEN FALSE
  ELSE IF Head(sub).id = Head(seq).id
       THEN IsSubsequenceById(Tail(sub), Tail(seq))
       ELSE IsSubsequenceById(sub, Tail(seq))

\* C16: addJob of a posting not yet saved leaves the saved postings where
\* they are and puts the new one behind them all, and removeJob keeps the
\* remaining postings in the order they had.
C16_SaveOrder ==
  [][/\ (last'.op = "addJob" /\ last'.jobId \notin Ids(savedJobs))
          => /\ Len(savedJobs') = Len(savedJobs) + 1
             /\ SubSeq(savedJobs', 1, Len(savedJobs)) = savedJobs
             /\ savedJobs'[Len(savedJobs')].id = last'.jobId
     /\ (last'.op = "removeJob")
          => /\ IsSubsequenceById(savedJobs', savedJobs)
             /\ Ids(savedJobs') = Ids(savedJobs) \ {last'.jobId}]_vars

\* Three postings were saved in an order that is not the order in which
\* they were fetched, and the first of them was removed: the two that
\* remain are in the order of their saves.
C16_Witness ==
  /\ last.op = "removeJob"
  /\ last.changed
  /\ last.index = 1
  /\ Len(savedJobs) = 2
  /\ savedJobs[1].id > savedJobs[2].id

\* C17 as stated: in every state the postings of filteredJobs are, by id,
\* postings of jobs in the same relative order.
C17_FilteredWithinJobs == IsSubsequenceById(filteredJobs, jobs)

\* The step just taken belongs to a loadMoreJobs whose fetch failed.
FailedLoadMore(step, op) ==
  /\ step.op = op
  /\ step.origin = "loadMoreJobs"
  /\ step.kind \in {"error", "notArray"}

\* C18 as stated: when the fetch of a loadMoreJobs fails, neither the
\* settling of the fetch nor the rest of loadMoreJobs changes jobs or
\* filteredJobs, and both flags are false when loadMoreJobs has finished.
C18_FailedLoadMoreChangesNothing ==
  [][/\ (FailedLoadMore(last', "settle") \/ FailedLoadMore(last', "reapply"))
          => /\ jobs' = jobs
             /\ filteredJobs' = filteredJobs
     /\ FailedLoadMore(last', "reapply") => (~loading' /\ ~loadingMore')]_vars

\* C18, amended: the failed fetch of a loadMoreJobs leaves jobs and
\* filteredJobs as they are; the rest of loadMoreJobs leaves jobs as it
\* is, sets filteredJobs to the jobs that loadMoreJobs saw when it was
\* called, and both flags are false when it has finished.
C18_FailedLoadMoreResetsFilter ==
  [][/\ (last'.op = "loadMoreJobs" /\ last'.accepted)
          => \E r \in inflight' \ inflight :
               r.origin = "loadMoreJobs" /\ r.closure = jobs
     /\ (last'.op = "settle" /\ last'.origin = "loadMoreJobs")
          => \E r \in inflight \ inflight' :
               pending' # <<>> /\ pending'[1].jobs = r.closure
     /\ FailedLoadMore(last', "settle")
          => /\ jobs' = jobs
             /\ filteredJobs' = filteredJobs
     /\ FailedLoadMore(last', "reapply")
          => /\ jobs' = jobs
             /\ filteredJobs' = pending[1].jobs
             /\ ~loading' /\ ~loadingMore']_vars

\* A loadMoreJobs whose fetch failed has finished and has undone the
\* search filter: all loaded postings are shown again.  The mount-time
\* request and this one are the only requests there were.
C18_Witness ==
  /\ FailedLoadMore(last, "reapply")
  /\ last.changed
  /\ nreq = 2
  /\ jobs # <<>>
  /\ filteredJobs = jobs

====
